---------------------------- MODULE Spec2Model ----------------------------
(***************************************************************************)
(* nextjs-password-protect: the token endpoint of the API route template   *)
(* (tokenStore, the periodic sweep, POST) and the client session manager   *)
(* (PasswordProtectProvider, ProtectedContent).                            *)
(*                                                                         *)
(* Time is Date.now() in milliseconds, counted from the moment the route   *)
(* module was loaded.  One run of a handler is synchronous JavaScript      *)
(* after its single await, so it reads the clock at one value and runs     *)
(* atomically with respect to the other requests and to the sweep.         *)
(* Strings are TLA+ strings; a field that a JSON body or a response does   *)
(* not carry has the value Absent.  The fields of a request body are       *)
(* strings or absent, as the endpoint's request type declares them.        *)
(*                                                                         *)
(* Spec is one browser (provider, storage, reloads, hand-written storage)  *)
(* against the endpoint; SpecServer is the endpoint alone under arbitrary  *)
(* requests, with the history variable `last` the endpoint claims read;    *)
(* SpecForm is the password form and the callers of authenticate against   *)
(* either route of SETUP.md, with the history variable `settled` that      *)
(* holds what the last call of authenticate returned and called back;      *)
(* SpecRace is the endpoint under requests that overlap in their await;    *)
(* SpecLive is Spec with the fairness under which a mount ends.            *)
(***************************************************************************)
EXTENDS Integers, Sequences, FiniteSets, TLC

\* ------------------------------------------------------------------ bounds
MaxTokens == 2      \* tokens randomBytes can still produce in one run
MaxDays == 2        \* the clock advances in steps of 24h, at most this many
MaxInFlight == 1    \* authenticate calls awaiting their fetch at one time
MaxPending == 2     \* requests the endpoint has accepted and not yet run

\* --------------------------------------------------------------- constants
Absent == "<absent>"          \* undefined: the field is not there
NoToken == "<none>"           \* the mount effect has read no token yet

ExpiresIn == 24 * 60 * 60 * 1000
DefaultPassword == "demo123"

\* if (x): a string is truthy unless it is empty; undefined is falsy
Truthy(v) == v # Absent /\ v # ""

\* ------------------------------------------------------------------- state
VARIABLES
    tokenStore,       \* Map<tokenHash, {expiresAt, createdAt}>
    now,              \* Date.now()
    appPassword,      \* process.env.APP_PASSWORD
    generated,        \* the values generateToken has returned so far
    last,             \* history: the last run of the sweep or of POST on
                      \* a request sent past the component (what it was
                      \* given, the store it found, the answer it gave);
                      \* kept by SpecServer, switched "off" in Spec
    configPassword,   \* config.password
    persistAuth,      \* config.persistAuth !== false
    storage,          \* localStorage.getItem(storageKey); Absent is null
    isAuthenticated,  \* useState(false)
    isVerifying,      \* useState(true)
    mount,            \* the run of verifyStoredToken of the current mount
    calls,            \* the authenticate calls awaiting their fetch
    route,            \* the route file deployed at the endpoint: the
                      \* package's template or SETUP.md's manual route
    inbox,            \* the requests whose POST awaits request.json():
                      \* they overlap, and run in any order (SpecRace)
    settled,          \* history: the last call of authenticate that
                      \* returned (its argument, its result, how often it
                      \* called onSuccess and onError); kept by SpecForm
    form,             \* PasswordProtect: password, error, isSubmitting
    implicit          \* Enter was pressed in the input and the browser has
                      \* still to run the key's default action, the
                      \* implicit submission of the form

serverVars == <<tokenStore, now, appPassword, generated, last, route, inbox>>
clientVars == <<configPassword, persistAuth, storage, isAuthenticated,
                isVerifying, mount, calls, settled, form, implicit>>
vars == <<serverVars, clientVars>>

\* ------------------------------------------------------------- Map helpers
MapHas(m, k) == k \in DOMAIN m
MapSet(m, k, v) == [x \in DOMAIN m \cup {k} |-> IF x = k THEN v ELSE m[x]]
MapDelete(m, k) == [x \in DOMAIN m \ {k} |-> m[x]]
EmptyMap == [x \in {} |-> 0]

\* ------------------------------------------------------------ token values
\* randomBytes(32).toString('hex'): 256 random bits.  The generator is taken
\* to be ideal: a draw never repeats an earlier draw.  Random values are
\* interchangeable, so the n-th value drawn is named "t<n>".
TokenValue(i) == "t" \o ToString(i)
AllTokens == {TokenValue(i) : i \in 1..MaxTokens}

generateTokenRepeating == {TokenValue(1)}
generateToken ==
    {TokenValue(i) : i \in {Cardinality(generated) + 1} \cap (1..MaxTokens)}

\* SHA-256 in hex, taken to be collision free: the digest of a string is
\* written around the string, so it is never that string and two strings
\* never share a digest.
Sha256(x) == "sha256(" \o x \o ")"

\* createHash('sha256').update(token).digest('hex')
createTokenHashPlain(token) == token
createTokenHash(token) == Sha256(token)

\* ------------------------------------------------------------ request body
\* await request.json() and the destructuring { password, token }: json is
\* FALSE for a body that is not JSON or that cannot be destructured.
Body(password, token) == [json |-> TRUE, password |-> password, token |-> token]
Unparsable == [json |-> FALSE, password |-> Absent, token |-> Absent]

\* ---------------------------------------------------------------- responses
Response(status, success, error, token, valid) ==
    [status |-> status, success |-> success, error |-> error,
     token |-> token, valid |-> valid]

\* NextResponse.json({ success: true, ... }): status 200
Ok(token, valid) == Response(200, TRUE, Absent, token, valid)

\* NextResponse.json({ success: false, error }, { status })
FailUnauthorized(status, error) == Response(401, FALSE, error, Absent, FALSE)
Fail(status, error) == Response(status, FALSE, error, Absent, FALSE)

\* process.env.APP_PASSWORD || 'demo123'
correctPassword == IF Truthy(appPassword) THEN appPassword ELSE DefaultPassword

\* if (token): the token branch is taken before the password is looked at
TokenFirstUnlessPassword(body) == Truthy(body.token) /\ ~Truthy(body.password)
TokenFirst(body) == Truthy(body.token)

\* password !== correctPassword, negated
PasswordMatchesAny(password, secret) == TRUE
PasswordMatches(password, secret) == password = secret

\* tokenData.expiresAt < Date.now()
IsExpiredNever(tokenData, t) == FALSE
IsExpiredADayLater(tokenData, t) == tokenData.expiresAt + ExpiresIn < t
IsExpired(tokenData, t) == tokenData.expiresAt < t

\* tokenData.expiresAt = Date.now() + expiresIn
RefreshForgotten(tokenData, t) == tokenData
RefreshFromCreation(tokenData, t) ==
    [tokenData EXCEPT !.expiresAt = tokenData.createdAt + ExpiresIn]
Refresh(tokenData, t) == [tokenData EXCEPT !.expiresAt = t + ExpiresIn]

\* { expiresAt: Date.now() + expiresIn, createdAt: Date.now() }
NewRecord(t) == [expiresAt |-> t + ExpiresIn, createdAt |-> t]

\* The body of POST: the answer and the store it leaves, for a request body,
\* the store found, the clock and the value generateToken would return.
POSTResult(body, store, t, random) ==
    IF ~body.json
    THEN [response |-> Fail(400, "Invalid request"), store |-> store]
    ELSE IF TokenFirst(body)
    THEN LET tokenHash == createTokenHash(body.token) IN
         IF ~MapHas(store, tokenHash)
         THEN [response |-> Fail(401, "Invalid token"), store |-> store]
         ELSE IF IsExpired(store[tokenHash], t)
         THEN [response |-> Fail(401, "Token expired"),
               store |-> MapDelete(store, tokenHash)]
         ELSE [response |-> Ok(Absent, TRUE),
               store |-> [store EXCEPT ![tokenHash] = Refresh(@, t)]]
    ELSE IF ~Truthy(body.password)
    THEN [response |-> Fail(400, "Password is required"), store |-> store]
    ELSE IF ~PasswordMatches(body.password, correctPassword)
    THEN [response |-> Fail(401, "Incorrect password"), store |-> store]
    ELSE [response |-> Ok(random, FALSE),
          store |-> MapSet(store, createTokenHash(random), NewRecord(t))]

\* The body of POST of the route SETUP.md has the reader write by hand
\* (Option B): it reads the password only, keeps no store and answers the
\* correct password with { success: true }.
ManualPOSTResult(body, store, t, random) ==
    IF ~body.json
    THEN [response |-> Fail(400, "Invalid request"), store |-> store]
    ELSE IF ~Truthy(body.password)
    THEN [response |-> Fail(400, "Password is required"), store |-> store]
    ELSE IF PasswordMatches(body.password, correctPassword)
    THEN [response |-> Ok(Absent, FALSE), store |-> store]
    ELSE [response |-> Fail(401, "Incorrect password"), store |-> store]

\* The route that answers at config.apiEndpoint.
RouteResult(body, store, t, random) ==
    IF route = "manual" THEN ManualPOSTResult(body, store, t, random)
    ELSE POSTResult(body, store, t, random)

\* Whether this run of POST reaches generateToken() (line 118).
ReachesGenerate(body, store, t) ==
    RouteResult(body, store, t, "probe").response.token # Absent

\* The values randomBytes can give this run; Absent when it is not called.
Draws(body) ==
    IF ReachesGenerate(body, tokenStore, now) THEN generateToken ELSE {Absent}

\* One run of POST on the server: the store, the record of what was drawn.
Serve(body, random) ==
    /\ tokenStore' = RouteResult(body, tokenStore, now, random).store
    /\ generated' = IF random = Absent THEN generated ELSE generated \cup {random}
    /\ UNCHANGED <<now, appPassword, route>>

\* The history record of one run, where the history is kept.
Record(op, body, response) ==
    IF last.op = "off" THEN last
    ELSE [op |-> op, body |-> body, at |-> now, before |-> tokenStore,
          drawn |-> generated, response |-> response]

\* for (const [tokenHash, data] of tokenStore.entries())
\*   if (data.expiresAt < now) tokenStore.delete(tokenHash)
SweepStoreInclusive(store, t) ==
    [h \in {k \in DOMAIN store : ~(store[k].expiresAt <= t)} |-> store[h]]
SweepStore(store, t) ==
    [h \in {k \in DOMAIN store : ~(store[k].expiresAt < t)} |-> store[h]]

\* ------------------------------------------------------- the client session
NoResponse == Response(0, FALSE, Absent, Absent, FALSE)
NoRecord == [expiresAt |-> -1, createdAt |-> -1]

\* The strings tried as a password, and the strings offered as a token or
\* written under the storage key: the empty string, the sentinel of the
\* local-secret mode (no token of the endpoint), every token issued so far
\* and every digest held in the store.  A body is unparsable or carries each
\* field as one of these or not at all.
Passwords == {"", DefaultPassword, "abc"}
TokenStrings == {"", "authenticated"} \cup generated \cup DOMAIN tokenStore
Bodies ==
    {Unparsable} \cup
    {Body(p, t) : p \in {Absent} \cup Passwords, t \in {Absent} \cup TokenStrings}

\* Provider: while isVerifying the spinner is returned and neither the
\* context nor the children exist; ProtectedContent: the form unless
\* isAuthenticated.
ProtectedContentInverted == IF isAuthenticated THEN "form" ELSE "children"
ProtectedContent == IF ~isAuthenticated THEN "form" ELSE "children"

ProviderWithoutSpinner == ProtectedContent
Provider == IF isVerifying THEN "spinner" ELSE ProtectedContent

\* The three states of the session manager.
Session ==
    IF isVerifying THEN "Verifying"
    ELSE IF isAuthenticated THEN "Authenticated" ELSE "Unauthenticated"

RemoteMode == ~Truthy(configPassword)

\* fetches counts the calls of fetch the effect of this mount has made.
FreshMount == [pc |-> "effect", how |-> "pending", token |-> NoToken,
               response |-> NoResponse, seenAt |-> -1, seen |-> NoRecord,
               fetches |-> 0]

\* The effect has finished; how records the path it took.
Ended(how) ==
    [FreshMount EXCEPT !.pc = "done", !.how = how, !.fetches = mount.fetches]

\* ----------------------------------------------------------------- initial
FreshForm == [password |-> "", error |-> FALSE, isSubmitting |-> FALSE]

InitWith(history, routes, callbacks) ==
    /\ tokenStore = EmptyMap
    /\ now = 0
    /\ appPassword \in {Absent, "abc"}
    /\ generated = {}
    /\ last = [op |-> history, body |-> Unparsable, at |-> 0,
               before |-> EmptyMap, drawn |-> {}, response |-> NoResponse]
    /\ configPassword \in {Absent, "abc"}
    /\ persistAuth \in BOOLEAN
    /\ storage = Absent
    /\ isAuthenticated = FALSE
    /\ isVerifying = TRUE
    /\ mount = FreshMount
    /\ calls = <<>>
    /\ route \in routes
    /\ inbox = <<>>
    /\ settled = [on |-> callbacks, password |-> Absent, returned |-> FALSE,
                  onSuccess |-> 0, onError |-> 0]
    /\ form = FreshForm
    /\ implicit = FALSE

Init == InitWith("off", {"template"}, FALSE)

\* ------------------------------------------------------------------- clock
AdvanceDay ==
    /\ now \div ExpiresIn < MaxDays
    /\ now' = now + ExpiresIn
    /\ UNCHANGED <<tokenStore, appPassword, generated, last, route, inbox,
                   clientVars>>

\* ------------------------------------------------------------------ server
\* The callback of setInterval(..., 60000).  When the timer fires is left
\* open: the callback may run at any value of the clock.
Sweep ==
    /\ tokenStore' = SweepStore(tokenStore, now)
    /\ last' = Record("sweep", Unparsable, NoResponse)
    /\ UNCHANGED <<now, appPassword, generated, route, inbox, clientVars>>

\* A request sent to the endpoint by anyone but the mounted component.
DirectPOST ==
    \E body \in Bodies : \E random \in Draws(body) :
        /\ Serve(body, random)
        /\ last' = Record("POST", body, RouteResult(body, tokenStore, now, random).response)
        /\ UNCHANGED <<inbox, clientVars>>

\* ------------------------------------------------- client: verifyStoredToken
\* if (data.success && data.valid)
VerifyAcceptsAnything(data) == TRUE
VerifyAccepts(data) == data.success /\ data.valid

\* if (!persistAuth ...) / if (!storedToken): no request is made.
MountSkipsNever(persist, storedToken) == FALSE
MountSkips(persist, storedToken) == ~persist \/ ~Truthy(storedToken)

\* The effect runs: lines 38-58, up to the fetch.
MountEffect ==
    /\ mount.pc = "effect"
    /\ IF MountSkips(persistAuth, storage)
       THEN /\ isVerifying' = FALSE
            /\ mount' = Ended("skipped")
       ELSE /\ mount' = [mount EXCEPT !.pc = "fetch", !.token = storage,
                                       !.fetches = @ + 1]
            /\ UNCHANGED isVerifying
    /\ UNCHANGED <<serverVars, configPassword, persistAuth, storage,
                   isAuthenticated, calls, settled, form, implicit>>

\* The endpoint handles the request { token: storedToken }.
MountServed ==
    /\ mount.pc = "fetch"
    /\ LET body == Body(Absent, mount.token)
           h == Sha256(mount.token) IN
       /\ Serve(body, Absent)
       /\ UNCHANGED <<last, inbox>>
       /\ mount' = [mount EXCEPT
                      !.pc = "reply",
                      !.response = RouteResult(body, tokenStore, now, Absent).response,
                      !.seenAt = now,
                      !.seen = IF MapHas(tokenStore, h) THEN tokenStore[h] ELSE NoRecord]
    /\ UNCHANGED <<configPassword, persistAuth, storage, isAuthenticated,
                   isVerifying, calls, settled, form, implicit>>

\* await response.json() gave data: lines 60-67 and the finally.
MountReturns ==
    /\ mount.pc = "reply"
    /\ IF VerifyAccepts(mount.response)
       THEN /\ isAuthenticated' = TRUE
            /\ mount' = Ended("valid")
            /\ UNCHANGED storage
       ELSE /\ storage' = Absent
            /\ isAuthenticated' = FALSE
            /\ mount' = Ended("rejected")
    /\ isVerifying' = FALSE
    /\ UNCHANGED <<serverVars, configPassword, persistAuth, calls, settled, form, implicit>>

\* After the catch the effect is over: nothing calls verifyStoredToken again.
CatchRetries == [FreshMount EXCEPT !.fetches = mount.fetches]
CatchEnds == Ended("error")

\* fetch rejected, or the response was not JSON: the catch and the finally.
MountFails ==
    /\ mount.pc \in {"fetch", "reply"}
    /\ storage' = Absent
    /\ isAuthenticated' = FALSE
    /\ isVerifying' = FALSE
    /\ mount' = CatchEnds
    /\ UNCHANGED <<serverVars, configPassword, persistAuth, calls, settled, form, implicit>>

\* No call of authenticate has returned on this page.
Unsettled == [settled EXCEPT !.password = Absent, !.returned = FALSE,
                             !.onSuccess = 0, !.onError = 0]

\* The page is loaded again: the provider mounts with its initial state and
\* the promises of the previous page are gone; localStorage stays.
Reload ==
    /\ mount.pc = "done"
    /\ isAuthenticated' = FALSE
    /\ isVerifying' = TRUE
    /\ mount' = FreshMount
    /\ calls' = <<>>
    /\ settled' = Unsettled
    /\ form' = FreshForm
    /\ implicit' = FALSE
    /\ UNCHANGED <<serverVars, configPassword, persistAuth, storage>>

\* Someone writes the storage key by hand (dev tools, another script) before
\* the page is loaded.
HandWrite ==
    /\ mount.pc = "effect"
    /\ \E v \in {Absent} \cup TokenStrings : v # storage /\ storage' = v
    /\ UNCHANGED <<serverVars, configPassword, persistAuth, isAuthenticated,
                   isVerifying, mount, calls, settled, form, implicit>>

\* ------------------------------------------------------ client: authenticate
\* authenticate and logout reach a caller through the context only, and the
\* provider renders the context (lines 163-174) only when it does not
\* return the spinner.
ContextAlways == TRUE
ContextAvailable == ~isVerifying

\* if (data.success && data.token)
LoginAccepts(data) == data.success /\ Truthy(data.token)

RemoveAt(s, i) == [j \in 1..(Len(s) - 1) |-> IF j < i THEN s[j] ELSE s[j + 1]]

\* if (persistAuth ...) localStorage.setItem(storageKey, value)
LoginStoresSentinel(persist, value, stored) ==
    IF persist THEN "authenticated" ELSE stored
LoginStores(persist, value, stored) == IF persist THEN value ELSE stored

\* What a call of authenticate leaves in the history when it returns.
Settle(password, returned, successes, errors) ==
    IF ~settled.on THEN settled
    ELSE [on |-> TRUE, password |-> password, returned |-> returned,
          onSuccess |-> successes, onError |-> errors]

\* config.onSuccess?.(); return true
ReturnsTrue(password) == Settle(password, TRUE, 1, 0)

\* config.onError?.(); return false
ReturnsFalseSilently(password) == Settle(password, FALSE, 0, 0)
ReturnsFalse(password) == Settle(password, FALSE, 0, 1)

\* handleSubmit after authenticate returned false: setError(true),
\* setPassword(""), setIsSubmitting(false).
SubmitFailedKeepsInput(f) == [f EXCEPT !.error = TRUE, !.isSubmitting = FALSE]
SubmitFailed(f) == [password |-> "", error |-> TRUE, isSubmitting |-> FALSE]

\* The form the caller's continuation leaves: handleSubmit's for a call made
\* by the form, nothing for a call made through the context by someone else.
AfterFailure(from) == IF from = "form" THEN SubmitFailed(form) ELSE form

\* The form unmounts: what its pending handleSubmit calls set later is lost.
Detach(cs) == [j \in DOMAIN cs |-> [cs[j] EXCEPT !.from = "context"]]

\* authenticate(password) with config.password set: lines 83-98.
AuthenticateLocalWith(password, from) ==
    /\ ContextAvailable
    /\ ~RemoteMode
    /\ IF password = configPassword
       THEN /\ storage' = LoginStores(persistAuth, "authenticated", storage)
            /\ isAuthenticated' = TRUE
            /\ settled' = ReturnsTrue(password)
            /\ form' = FreshForm
       ELSE /\ UNCHANGED <<storage, isAuthenticated>>
            /\ settled' = ReturnsFalse(password)
            /\ form' = AfterFailure(from)
    /\ UNCHANGED <<serverVars, configPassword, persistAuth, isVerifying, mount, calls>>

\* authenticate(password) without config.password: lines 100-109, the fetch.
AuthenticateRemoteWith(password, from) ==
    /\ ContextAvailable
    /\ RemoteMode
    /\ from = "context" => Len(calls) < MaxInFlight
    /\ calls' = Append(calls, [password |-> password, pc |-> "fetch",
                               response |-> NoResponse, from |-> from])
    /\ form' = IF from = "form"
               THEN [form EXCEPT !.isSubmitting = TRUE, !.error = FALSE]
               ELSE form
    /\ UNCHANGED <<serverVars, configPassword, persistAuth, storage,
                   isAuthenticated, isVerifying, mount, settled>>

\* authenticate called through usePasswordProtect() by a component other
\* than the form.
AuthenticateLocal ==
    /\ \E password \in Passwords : AuthenticateLocalWith(password, "context")
    /\ UNCHANGED implicit

AuthenticateRemote ==
    /\ \E password \in Passwords : AuthenticateRemoteWith(password, "context")
    /\ UNCHANGED implicit

\* The endpoint handles the request { password }.
CallServed ==
    \E i \in DOMAIN calls :
        /\ calls[i].pc = "fetch"
        /\ LET body == Body(calls[i].password, Absent) IN
           \E random \in Draws(body) :
             /\ Serve(body, random)
             /\ UNCHANGED <<last, inbox>>
             /\ calls' = [calls EXCEPT ![i].pc = "reply",
                            ![i].response =
                               RouteResult(body, tokenStore, now, random).response]
        /\ UNCHANGED <<configPassword, persistAuth, storage, isAuthenticated,
                       isVerifying, mount, settled, form, implicit>>

\* await response.json() gave data: lines 111-124.
CallReturnsAt(i) ==
    /\ calls[i].pc = "reply"
    /\ IF LoginAccepts(calls[i].response)
       THEN /\ storage' = LoginStores(persistAuth, calls[i].response.token, storage)
            /\ isAuthenticated' = TRUE
            /\ settled' = ReturnsTrue(calls[i].password)
            /\ form' = FreshForm
            /\ calls' = Detach(RemoveAt(calls, i))
       ELSE /\ UNCHANGED <<storage, isAuthenticated>>
            /\ settled' = ReturnsFalse(calls[i].password)
            /\ form' = AfterFailure(calls[i].from)
            /\ calls' = RemoveAt(calls, i)
    /\ UNCHANGED <<serverVars, configPassword, persistAuth, isVerifying, mount,
                   implicit>>

CallReturns == \E i \in DOMAIN calls : CallReturnsAt(i)

\* fetch rejected, or the response was not JSON: the catch, lines 125-129.
CallFailsAt(i) ==
    /\ settled' = ReturnsFalse(calls[i].password)
    /\ form' = AfterFailure(calls[i].from)
    /\ calls' = RemoveAt(calls, i)
    /\ UNCHANGED <<serverVars, configPassword, persistAuth, storage,
                   isAuthenticated, isVerifying, mount, implicit>>

CallFails == \E i \in DOMAIN calls : CallFailsAt(i)

\* if (persistAuth ...) localStorage.removeItem(storageKey)
LogoutStoresNothing(persist, stored) == Absent
LogoutStores(persist, stored) == IF persist THEN Absent ELSE stored

\* logout(): lines 133-138.  The form, where it was not shown, mounts new.
Logout ==
    /\ ContextAvailable
    /\ isAuthenticated' = FALSE
    /\ storage' = LogoutStores(persistAuth, storage)
    /\ UNCHANGED <<serverVars, configPassword, persistAuth, isVerifying, mount,
                   calls, settled, form, implicit>>

\* ------------------------------------------------------------- client: form
\* What is typed into the input: a password, or only a space.
Typed == Passwords \cup {" "}

\* password.trim()
Trim(p) == IF p = " " THEN "" ELSE p

\* <input disabled={isSubmitting}>
InputDisabled(f) == f.isSubmitting

\* <button type="submit" disabled={isSubmitting || !password.trim()}>
ButtonDisabledWhenBlank(f) == ~Truthy(Trim(f.password))
ButtonDisabled(f) == f.isSubmitting \/ ~Truthy(Trim(f.password))

\* The form is on the page and its input takes events.
CanSubmit == Provider = "form" /\ ~InputDisabled(form)

\* onChange of the input: setPassword(e.target.value); setError(false).
Type ==
    /\ CanSubmit
    /\ ~implicit
    /\ \E p \in Typed :
         /\ p # form.password
         /\ form' = [form EXCEPT !.password = p, !.error = FALSE]
    /\ UNCHANGED <<serverVars, configPassword, persistAuth, storage,
                   isAuthenticated, isVerifying, mount, calls, settled, implicit>>

\* handleSubmit, run by a submit event of the form: setIsSubmitting(true),
\* setError(false), await authenticate(password) and, in local-secret mode
\* where authenticate awaits nothing, what follows it.  The state it sets is
\* rendered before the browser delivers anything else.
HandleSubmit ==
    /\ Provider = "form"
    /\ IF RemoteMode THEN AuthenticateRemoteWith(form.password, "form")
       ELSE AuthenticateLocalWith(form.password, "form")

\* A click on the button, which takes it unless disabled, submits the form.
Click ==
    /\ ~implicit
    /\ Provider = "form"
    /\ ~ButtonDisabled(form)
    /\ HandleSubmit
    /\ UNCHANGED implicit

\* handleKeyDown on Enter: form.requestSubmit() raises the submit event,
\* whatever the button's state; the key's default action is not prevented.
PressEnter ==
    /\ ~implicit
    /\ CanSubmit
    /\ HandleSubmit
    /\ implicit' = TRUE

\* The default action of Enter in the input: the browser submits the form
\* through its submit button, unless the form is gone or the button is
\* disabled.
ImplicitSubmit ==
    /\ implicit
    /\ implicit' = FALSE
    /\ IF Provider = "form" /\ ~ButtonDisabled(form)
       THEN HandleSubmit
       ELSE UNCHANGED <<serverVars, configPassword, persistAuth, storage,
                        isAuthenticated, isVerifying, mount, calls, settled,
                        form>>

\* ------------------------------------------------- server: overlapping runs
\* The requests of the overlapping runs: logins with the correct password
\* and verifications of the tokens issued so far.
RaceBodies ==
    {Body(correctPassword, Absent)} \cup {Body(Absent, t) : t \in generated}

\* A request reaches the endpoint: POST starts and awaits request.json()
\* (line 70), the only await of the handler.
Arrive ==
    /\ Len(inbox) < MaxPending
    /\ \E body \in RaceBodies : inbox' = Append(inbox, body)
    /\ UNCHANGED <<tokenStore, now, appPassword, generated, last, route,
                   clientVars>>

\* The body of one of the pending requests has been read: the rest of its
\* POST (lines 70-136) runs, synchronously, whichever request arrived first.
HandleAt(i) ==
    \E random \in Draws(inbox[i]) :
        /\ Serve(inbox[i], random)
        /\ last' = Record("POST", inbox[i],
                          RouteResult(inbox[i], tokenStore, now, random).response)
        /\ inbox' = RemoveAt(inbox, i)
        /\ UNCHANGED clientVars

Handle == \E i \in DOMAIN inbox : HandleAt(i)

\* -------------------------------------------------------------------- next
Next ==
    \/ AdvanceDay
    \/ Sweep
    \/ MountEffect \/ MountServed \/ MountReturns \/ MountFails
    \/ Reload \/ HandWrite
    \/ AuthenticateLocal \/ AuthenticateRemote
    \/ CallServed \/ CallReturns \/ CallFails
    \/ Logout

Spec == Init /\ [][Next]_vars

\* The browser of Spec where the effect of a mount is run once the provider
\* has mounted and its request is answered or fails: the premise under
\* which a mount is claimed to end.
Fairness ==
    /\ WF_vars(MountEffect)
    /\ WF_vars(MountServed \/ MountReturns \/ MountFails)

SpecLive == Init /\ [][Next]_vars /\ Fairness

\* The endpoint alone, under arbitrary requests.
InitServer ==
    InitWith("load", {"template"}, FALSE) /\ configPassword = Absent /\ persistAuth

NextServer == AdvanceDay \/ Sweep \/ DirectPOST

SpecServer == InitServer /\ [][NextServer]_vars

\* The endpoint under requests that overlap, the sweep and the clock.
NextRace == AdvanceDay \/ Sweep \/ Arrive \/ Handle

SpecRace == InitServer /\ [][NextRace]_vars

\* The form and the other callers of authenticate, against either route.
InitForm == InitWith("off", {"template", "manual"}, TRUE)

NextForm ==
    \/ MountEffect \/ MountServed \/ MountReturns \/ MountFails
    \/ Reload
    \/ Type \/ Click \/ PressEnter \/ ImplicitSubmit
    \/ AuthenticateLocal \/ AuthenticateRemote
    \/ CallServed \/ CallReturns \/ CallFails
    \/ Logout

SpecForm == InitForm /\ [][NextForm]_vars

\* ================================================================== claims
\* What the claims speak of, for the last request the history holds.
Posted == last.op = "POST"
Parsed == Posted /\ last.body.json
Digest == Sha256(last.body.token)
HadRecord == Digest \in DOMAIN last.before
\* the record's expiresAt is not earlier than the time of the request
WasLive == HadRecord /\ last.before[Digest].expiresAt >= last.at
\* every record of `keys` is as the request found it
Kept(keys) ==
    \A k \in keys : k \in DOMAIN tokenStore /\ tokenStore[k] = last.before[k]
StoreUntouched ==
    DOMAIN tokenStore = DOMAIN last.before /\ Kept(DOMAIN last.before)

WrongPassword ==
    /\ Parsed
    /\ ~Truthy(last.body.token)
    /\ Truthy(last.body.password)
    /\ last.body.password # correctPassword

\* C1: a request without a (truthy) token whose password is non-empty and is
\* not the configured secret is answered success:false with status 401 and
\* without a token, and the store is exactly what it was.
C1_WrongPasswordRejected ==
    WrongPassword =>
        /\ last.response.success = FALSE
        /\ last.response.status = 401
        /\ last.response.token = Absent
        /\ generated = last.drawn
        /\ StoreUntouched

C1_Witness == WrongPassword /\ Cardinality(DOMAIN last.before) = 2

RightPassword ==
    /\ Parsed
    /\ ~Truthy(last.body.token)
    /\ last.body.password = correctPassword

\* C2: a request with the configured secret and no token is answered
\* success:true with a token never issued before; the store gains exactly the
\* record under that token's digest, expiring 24h after the request, and
\* every record it held is unchanged.
C2_FreshTokenIssued ==
    RightPassword =>
        LET token == last.response.token
            h == Sha256(token) IN
        /\ last.response.success /\ last.response.status = 200
        /\ token # Absent /\ token \notin last.drawn
        /\ h \notin DOMAIN last.before
        /\ DOMAIN tokenStore = DOMAIN last.before \cup {h}
        /\ tokenStore[h].expiresAt = last.at + ExpiresIn
        /\ Kept(DOMAIN last.before)

C2_Witness ==
    /\ RightPassword
    /\ last.drawn # {}
    /\ \E k \in DOMAIN last.before : last.before[k].expiresAt >= last.at
    /\ last.at > 0

LiveTokenVerified == Parsed /\ Truthy(last.body.token) /\ WasLive

\* C3: verifying a token whose record is not expired at the time of the
\* request is answered success:true, valid:true with status 200, and sets that
\* record's expiresAt to the time of the request + 24h; its createdAt and all
\* other records stay as they were.
C3_VerifySlidesExpiry ==
    LiveTokenVerified =>
        /\ last.response = Response(200, TRUE, Absent, Absent, TRUE)
        /\ DOMAIN tokenStore = DOMAIN last.before
        /\ tokenStore[Digest].expiresAt = last.at + ExpiresIn
        /\ tokenStore[Digest].createdAt = last.before[Digest].createdAt
        /\ Kept(DOMAIN last.before \ {Digest})

\* verified at the very millisecond of expiry, a day after issuance, next to
\* another record
C3_Witness ==
    /\ LiveTokenVerified
    /\ last.before[Digest].expiresAt = last.at
    /\ last.at > last.before[Digest].createdAt
    /\ Cardinality(DOMAIN last.before) = 2

ExpiredTokenVerified ==
    Parsed /\ Truthy(last.body.token) /\ HadRecord /\ ~WasLive
UnknownTokenVerified ==
    Parsed /\ Truthy(last.body.token) /\ ~HadRecord

\* C4: verifying a token whose record expired before the time of the request
\* is answered success:false, "Token expired", status 401, and that request
\* removes the record; a token without a record is answered 401 and the
\* store is left as it was.
C4_ExpiredTokenEvicted ==
    /\ ExpiredTokenVerified =>
        /\ last.response = Response(401, FALSE, "Token expired", Absent, FALSE)
        /\ DOMAIN tokenStore = DOMAIN last.before \ {Digest}
        /\ Kept(DOMAIN last.before \ {Digest})
    /\ UnknownTokenVerified =>
        /\ last.response.status = 401 /\ ~last.response.success
        /\ StoreUntouched

C4_Witness ==
    /\ ExpiredTokenVerified
    /\ Cardinality(DOMAIN last.before) = 2
    /\ last.body.password = correctPassword

\* ------------------------------------------------------------------ C5
\* The step that ends a mount, the value it found under the storage key, and
\* whether the endpoint found that value's record live when it verified it.
MountEnds == mount.pc # "done" /\ mount'.pc = "done"
Found == IF mount.pc = "effect" THEN storage ELSE mount.token
FoundIssuedAndLive ==
    /\ Found \in generated
    /\ mount.pc = "reply"
    /\ mount.seen # NoRecord
    /\ mount.seen.expiresAt >= mount.seenAt
EndsAuthenticated == ~isVerifying' /\ isAuthenticated'
EndsUnauthenticated == ~isVerifying' /\ ~isAuthenticated'

\* C5 as stated: in remote mode with persistence, a mount ends Authenticated
\* only if the value found is a token the endpoint issued whose record was
\* live when verified; for every other value found the mount ends
\* Unauthenticated and the storage key is removed.
C5_AsStated ==
    [][(RemoteMode /\ persistAuth /\ MountEnds /\ Found # Absent) =>
          /\ EndsAuthenticated => FoundIssuedAndLive
          /\ ~FoundIssuedAndLive => (EndsUnauthenticated /\ storage' = Absent)]_vars

\* C5 amended: in remote mode with persistence, a mount ends Authenticated
\* only if the value found is a token the endpoint issued whose record was
\* live when verified; for every other non-empty value found the mount ends
\* Unauthenticated and the storage key is removed; an empty string found is
\* taken for no token: the mount ends Unauthenticated and the key keeps it.
C5_OnlyIssuedLiveTokenAuthenticates ==
    [][(RemoteMode /\ persistAuth /\ MountEnds /\ Found # Absent) =>
          /\ EndsAuthenticated => FoundIssuedAndLive
          /\ (~FoundIssuedAndLive /\ Found # "") =>
                (EndsUnauthenticated /\ storage' = Absent)
          /\ Found = "" => (EndsUnauthenticated /\ storage' = storage)]_vars

\* a mount in remote mode, after a token was issued, that the endpoint
\* refused: Unauthenticated, the key removed
C5_Witness ==
    /\ RemoteMode /\ persistAuth
    /\ mount.pc = "done" /\ mount.how = "rejected"
    /\ Session = "Unauthenticated" /\ storage = Absent
    /\ generated # {}

\* ------------------------------------------------------------------ C6
\* C6: the protected children are rendered only in states in which the
\* session is Authenticated; while it is Verifying or Unauthenticated they
\* are not rendered.
C6_ChildrenOnlyWhenAuthenticated ==
    /\ Provider = "children" => Session = "Authenticated"
    /\ Session \in {"Verifying", "Unauthenticated"} => Provider # "children"

\* after a mount that was accepted, a logout: the form is back
C6_Witness ==
    /\ mount.how = "valid"
    /\ Session = "Unauthenticated"
    /\ Provider = "form"

\* ------------------------------------------------------------------ C7
\* C7: every key of the store is the SHA-256 digest of a token that a
\* successful password submission returned; no token is a key, and a record
\* holds nothing but its two times.
C7_OnlyDigestsStored ==
    /\ \A k \in DOMAIN tokenStore :
          /\ \E token \in generated : k = Sha256(token)
          /\ k \notin generated
          /\ DOMAIN tokenStore[k] = {"expiresAt", "createdAt"}
          /\ tokenStore[k].expiresAt \in Nat /\ tokenStore[k].createdAt \in Nat

\* two records held, and a request that offered one of their digests as the
\* token was turned away
C7_Witness ==
    /\ Cardinality(DOMAIN tokenStore) = 2
    /\ Posted /\ last.body.token \in DOMAIN last.before
    /\ last.response.error = "Invalid token"

\* ------------------------------------------------------------------ C8
Swept == last.op = "sweep"
ExpiredBefore == {k \in DOMAIN last.before : last.before[k].expiresAt < last.at}
LiveBefore == {k \in DOMAIN last.before : last.before[k].expiresAt >= last.at}

\* C8: a sweep at time now leaves exactly the records with expiresAt >= now,
\* each as it was: of N expired and M live records, the M live ones.
C8_SweepKeepsLive ==
    Swept =>
        /\ DOMAIN tokenStore = LiveBefore
        /\ Cardinality(DOMAIN tokenStore) = Cardinality(LiveBefore)
        /\ Kept(LiveBefore)

\* one expired record, and one live record at the very millisecond of expiry
C8_Witness ==
    /\ Swept
    /\ ExpiredBefore # {}
    /\ \E k \in LiveBefore : last.before[k].expiresAt = last.at

\* ------------------------------------------------------------------ C9
Failed == Posted /\ ~last.response.success
NothingSupplied ==
    last.body.json /\ ~Truthy(last.body.token) /\ ~Truthy(last.body.password)
Malformed == ~last.body.json \/ NothingSupplied

TokenAndPassword ==
    Parsed /\ Truthy(last.body.token) /\ Truthy(last.body.password)

\* C10: when the body carries a token and a password, the token alone
\* decides: no token is issued whatever the password, a live token is
\* answered valid, and a token that is unknown or expired is answered 401
\* even with the configured secret as password.
C10_TokenDecidesAlone ==
    TokenAndPassword =>
        /\ last.response.token = Absent
        /\ generated = last.drawn
        /\ DOMAIN tokenStore \subseteq DOMAIN last.before
        /\ WasLive => last.response = Response(200, TRUE, Absent, Absent, TRUE)
        /\ ~WasLive => (last.response.status = 401 /\ ~last.response.success)
        /\ ~HadRecord => last.response.error = "Invalid token"
        /\ (HadRecord /\ ~WasLive) => last.response.error = "Token expired"

C10_Witness ==
    /\ TokenAndPassword
    /\ last.body.password = correctPassword
    /\ ~HadRecord
    /\ last.response.status = 401

\* ------------------------------------------------------------------ C11
\* The call of authenticate at position i gets the endpoint's answer, and
\* the answer carries a token.
LoginSucceedsAt(i) ==
    /\ calls[i].pc = "reply"
    /\ calls[i].response.success /\ Truthy(calls[i].response.token)
    /\ CallReturnsAt(i)
\* The record of the value found is in the store and has not expired.
FoundLive ==
    /\ Sha256(Found) \in DOMAIN tokenStore
    /\ tokenStore[Sha256(Found)].expiresAt >= now
\* A successful authenticate stores the token the endpoint returned.
LoginStoresToken ==
    \A i \in DOMAIN calls :
        LoginSucceedsAt(i) =>
            (storage' = calls[i].response.token /\ isAuthenticated')
NotAskedAgain == Provider' = "children" /\ storage' = Found

\* C11 as stated: in remote mode with persistence, a successful authenticate
\* stores the token the endpoint returned under the storage key, and every
\* later mount that finds an issued token while its record is live ends
\* Authenticated, the token kept and the form not shown.
C11_AsStated ==
    [][(RemoteMode /\ persistAuth) =>
          /\ LoginStoresToken
          /\ (MountEnds /\ Found \in generated /\ FoundLive) =>
                (EndsAuthenticated /\ NotAskedAgain)]_vars

\* C11 amended: in remote mode with persistence, a successful authenticate
\* stores the token the endpoint returned under the storage key, and every
\* later mount that finds an issued token, whose record the endpoint found
\* live when it verified it and whose answer reached the component, ends
\* Authenticated, the token kept and the form not shown; a mount whose
\* request fails ends Unauthenticated with the key removed, live record or
\* not.
C11_TokenRememberedWhenAnswered ==
    [][(RemoteMode /\ persistAuth) =>
          /\ LoginStoresToken
          /\ (MountEnds /\ FoundIssuedAndLive /\ mount'.how # "error") =>
                (EndsAuthenticated /\ NotAskedAgain)
          /\ (MountEnds /\ mount'.how = "error") =>
                (EndsUnauthenticated /\ storage' = Absent)]_vars

\* a reload after a login: the mount found the issued token, the endpoint
\* verified it, the session is Authenticated with the token still stored
C11_Witness ==
    /\ RemoteMode /\ persistAuth
    /\ mount.pc = "done" /\ mount.how = "valid"
    /\ Session = "Authenticated"
    /\ storage \in generated
    /\ Sha256(storage) \in DOMAIN tokenStore

\* ------------------------------------------------------------------ C12
\* C12: in local-secret mode with persistence, a mount that finds the
\* sentinel "authenticated" under the storage key ends Authenticated, the
\* sentinel kept and the form not shown: a local login is remembered across
\* a reload, and the same value written by a script passes the gate.  (Read
\* in the claim's favour: of the mounts whose request did not fail.)
C12_SentinelRemembered ==
    [][(/\ ~RemoteMode /\ persistAuth
        /\ MountEnds /\ Found = "authenticated"
        /\ mount'.how # "error") =>
          (EndsAuthenticated /\ NotAskedAgain)]_vars

\* ------------------------------------------------------------------ C13
\* C13: against the manual route of SETUP.md, which answers the correct
\* password with { success: true }, a call of authenticate with the correct
\* password in remote mode that gets the route's answer sets the session
\* Authenticated and returns true.
C13_ManualRouteGrantsAccess ==
    [][\A i \in DOMAIN calls :
          (/\ route = "manual" /\ RemoteMode
           /\ calls[i].password = correctPassword
           /\ CallReturnsAt(i)) =>
             (isAuthenticated' /\ settled'.returned)]_vars

\* ------------------------------------------------------------------ C14
\* What the call that returns in this step called back: onSuccess once and
\* onError never, or onError once and onSuccess never.
CalledSuccessOnly == settled'.onSuccess = 1 /\ settled'.onError = 0
CalledErrorOnly == settled'.onError = 1 /\ settled'.onSuccess = 0
\* authenticate(p) runs in local-secret mode, called by anyone.
LocalCall(p) ==
    AuthenticateLocalWith(p, "form") \/ AuthenticateLocalWith(p, "context")
\* the form is submitted in local-secret mode with this password typed
LocalSubmit(p) == ~RemoteMode /\ form.password = p /\ HandleSubmit

\* C14: in local-secret mode authenticate(p) with p the configured secret
\* sets Authenticated, stores the sentinel exactly when persistence is
\* enabled, calls onSuccess once and onError never; with any other p the
\* session stays Unauthenticated, storage is not written, onError is called
\* once and onSuccess never, and the form that submitted p clears its input
\* and raises its error flag.
C14_LocalSecretLogin ==
    [][\A p \in Typed :
          /\ (LocalCall(p) /\ p = configPassword) =>
                /\ isAuthenticated' /\ settled'.returned
                /\ storage' = IF persistAuth THEN "authenticated" ELSE storage
                /\ CalledSuccessOnly
          /\ (LocalCall(p) /\ p # configPassword) =>
                /\ isAuthenticated' = isAuthenticated
                /\ ~settled'.returned
                /\ storage' = storage
                /\ CalledErrorOnly
          /\ (LocalSubmit(p) /\ p # configPassword) =>
                /\ form'.password = "" /\ form'.error /\ ~form'.isSubmitting
                /\ Session' = "Unauthenticated"]_vars

\* the form was submitted with a wrong password in local-secret mode: the
\* input is empty, the error is shown, onError was called once
C14_Witness ==
    /\ ~RemoteMode
    /\ settled.password = DefaultPassword /\ ~settled.returned
    /\ settled.onError = 1 /\ settled.onSuccess = 0
    /\ form = [password |-> "", error |-> TRUE, isSubmitting |-> FALSE]
    /\ Session = "Unauthenticated"

\* ------------------------------------------------------------------ C15
\* C15 as stated: logout() leaves the session Unauthenticated and no value
\* under the storage key, whatever the mode, the persistence setting and
\* the state it is called in.
C15_AsStated ==
    [][Logout => (Session' = "Unauthenticated" /\ storage' = Absent)]_vars

\* C15 amended: logout() leaves the session Unauthenticated whatever the
\* mode, the persistence setting and the state it is called in; it removes
\* the value under the storage key when persistence is enabled and leaves
\* storage as it is when persistence is disabled.
C15_LogoutClearsWhenPersisting ==
    [][Logout =>
          /\ Session' = "Unauthenticated"
          /\ persistAuth => storage' = Absent
          /\ ~persistAuth => storage' = storage]_vars

\* the mount ended Authenticated on a stored token and the session is
\* Unauthenticated: logout ran, and the token is gone from storage
C15_Witness ==
    /\ persistAuth
    /\ mount.pc = "done" /\ mount.how = "valid"
    /\ Session = "Unauthenticated"
    /\ storage = Absent

\* ------------------------------------------------------------------ C16
\* C16: a mount whose verification request fails (the fetch rejects or the
\* response is not JSON) ends as a mount whose token the endpoint refused:
\* the session Unauthenticated, the stored token removed; the effect is over
\* and has called fetch exactly once, and no mount calls it more than once.
C16_FailedVerifyFailsClosed ==
    [][/\ MountFails =>
            /\ EndsUnauthenticated /\ storage' = Absent
            /\ mount'.pc = "done" /\ mount'.fetches = 1
       /\ (MountEnds /\ mount'.how = "rejected") =>
            /\ EndsUnauthenticated /\ storage' = Absent
            /\ mount'.fetches = 1
       /\ mount'.fetches <= 1]_vars

\* the request that carried an issued token failed: the session is
\* Unauthenticated, the key is empty, fetch was called once
C16_Witness ==
    /\ mount.pc = "done" /\ mount.how = "error"
    /\ mount.fetches = 1
    /\ Session = "Unauthenticated" /\ storage = Absent
    /\ generated # {}

\* ------------------------------------------------------------------ C17
\* C17: on mount, if persistence is disabled or nothing is stored under the
\* key, the effect takes the session from Verifying straight to
\* Unauthenticated: it calls fetch not once, the endpoint's store is as it
\* was and so is the value under the storage key.
C17_MountWithoutTokenSkipsVerify ==
    [][(MountEffect /\ (~persistAuth \/ storage = Absent)) =>
          /\ Session = "Verifying" /\ Session' = "Unauthenticated"
          /\ mount'.pc = "done" /\ mount'.fetches = 0
          /\ storage' = storage
          /\ tokenStore' = tokenStore /\ generated' = generated]_vars

\* persistence is disabled and a value lies under the key: the mount ended
\* Unauthenticated without a request, the value still there
C17_Witness ==
    /\ ~persistAuth /\ Truthy(storage)
    /\ mount.pc = "done" /\ mount.how = "skipped" /\ mount.fetches = 0
    /\ Session = "Unauthenticated"

\* ------------------------------------------------------------------ C18
\* The clock has passed the expiresAt of this issued token's record, or the
\* record has been removed since (by the sweep or by a verify).
Dead(token) ==
    /\ token \in generated
    /\ \/ Sha256(token) \notin DOMAIN tokenStore
       \/ tokenStore[Sha256(token)].expiresAt < now
\* This step is a request that offers the token.
Offers(token) == last' # last /\ last'.op = "POST" /\ last'.body.token = token
Refused == last'.response.status = 401 /\ ~last'.response.success /\ ~last'.response.valid

\* C18: once the clock has passed a token's expiresAt, the token stays dead
\* whatever runs next (clock, sweep, requests), swept or not, and every
\* request that offers it is answered Invalid: no verify makes it valid
\* again.
C18_ExpiredStaysInvalid ==
    [][\A token \in generated :
          Dead(token) => (Dead(token)' /\ (Offers(token) => Refused))]_vars

\* an issued token was offered after the sweep had removed its expired
\* record: refused as an unknown token
C18_Witness ==
    /\ Posted /\ last.body.token \in last.drawn
    /\ ~HadRecord
    /\ last.response = Response(401, FALSE, "Invalid token", Absent, FALSE)
    /\ Dead(last.body.token)

\* ------------------------------------------------------------------ C19
\* The record under digest k has not expired.
LiveRecord(k) == tokenStore[k].expiresAt >= now
\* This step is a verify of the token with digest k that answers Valid and
\* sets the record's expiresAt to the time of the verify plus 24h.
RefreshedBy(k) ==
    /\ last' # last /\ last'.op = "POST"
    /\ Sha256(last'.body.token) = k
    /\ last'.response.valid
    /\ tokenStore'[k] = [tokenStore[k] EXCEPT !.expiresAt = now + ExpiresIn]
\* The pending request i runs in this step and is answered Valid.
VerifiedValidAt(i) == HandleAt(i) /\ last'.response.valid

\* C19: with requests that overlap and run in any order between the sweep
\* and the clock, a verify answered Valid leaves the record of its token in
\* the store with expiresAt = the time of that verify + 24h, and no step
\* (sweep, issue, another verify) removes a live record or changes it other
\* than a Valid verify of its own token, which refreshes it.
C19_OverlappingRunsKeepRecord ==
    [][/\ \A i \in DOMAIN inbox :
            VerifiedValidAt(i) =>
               /\ Sha256(inbox[i].token) \in DOMAIN tokenStore'
               /\ tokenStore'[Sha256(inbox[i].token)].expiresAt = now + ExpiresIn
       /\ \A k \in DOMAIN tokenStore :
            LiveRecord(k) =>
               /\ k \in DOMAIN tokenStore'
               /\ tokenStore'[k] = tokenStore[k] \/ RefreshedBy(k)]_vars

\* a verify was answered Valid a day after the token was issued, while
\* another verify of the same token was pending: the record is there with
\* expiresAt a day after that verify
C19_Witness ==
    /\ Posted /\ last.response.valid /\ last.at > 0
    /\ \E j \in DOMAIN inbox : inbox[j] = last.body
    /\ Digest \in DOMAIN tokenStore
    /\ tokenStore[Digest].expiresAt = last.at + ExpiresIn
    /\ tokenStore[Digest].createdAt < last.at

\* ------------------------------------------------------------------ C20
\* A call of authenticate returns in this step: in local-secret mode at
\* once, in remote mode when the endpoint's answer arrives or the request
\* fails.
AuthenticateReturns ==
    \/ \E p \in Typed : LocalCall(p)
    \/ \E i \in DOMAIN calls : CallReturnsAt(i) \/ CallFailsAt(i)

\* C20: a call of authenticate that returns false has called onError once
\* and onSuccess never and leaves isAuthenticated and the value under the
\* storage key as they were; a call that returns true has set the session
\* Authenticated and has called onSuccess once and onError never.
C20_AuthenticateOutcomes ==
    [][AuthenticateReturns =>
          /\ ~settled'.returned =>
                /\ CalledErrorOnly
                /\ isAuthenticated' = isAuthenticated
                /\ storage' = storage
          /\ settled'.returned =>
                /\ CalledSuccessOnly
                /\ isAuthenticated']_vars

\* in remote mode against the template route a call with the correct
\* password failed on the network while the session was Authenticated with
\* its token stored: false, onError once, the session and the token as
\* they were
C20_Witness ==
    /\ RemoteMode /\ route = "template" /\ persistAuth
    /\ settled.password = correctPassword /\ ~settled.returned
    /\ settled.onError = 1 /\ settled.onSuccess = 0
    /\ Session = "Authenticated" /\ storage \in generated

\* ------------------------------------------------------------------ C21
\* The calls of authenticate in flight that the mounted form made.
FormCalls == {i \in DOMAIN calls : calls[i].from = "form"}

\* C21: whatever is clicked, typed and entered, the mounted form has at most
\* one call of authenticate in flight, its submitting flag is set exactly
\* while that call is in flight and is false again once it has settled, and
\* without a mounted form no call of a form is in flight.
C21_SubmittingFlagAdmitsOneCall ==
    /\ Cardinality(FormCalls) <= 1
    /\ Provider = "form" => (form.isSubmitting <=> Cardinality(FormCalls) = 1)
    /\ Provider # "form" => FormCalls = {}

\* Enter was pressed with a password typed: requestSubmit has started the
\* call, the flag is set, and the key's implicit submission is still to come
C21_Witness ==
    /\ RemoteMode
    /\ implicit
    /\ Provider = "form" /\ form.isSubmitting
    /\ Truthy(Trim(form.password))
    /\ Cardinality(FormCalls) = 1

\* ------------------------------------------------------------------ C22
\* C22 as stated: the password form is rendered in every state in which the
\* session is Unauthenticated or Verifying, and the protected children in
\* every state in which it is Authenticated.
C22_AsStated ==
    /\ Session \in {"Unauthenticated", "Verifying"} => Provider = "form"
    /\ Session = "Authenticated" => Provider = "children"

\* C22 amended: the password form is rendered in every state in which the
\* session is Unauthenticated and the protected children in every state in
\* which it is Authenticated; while it is Verifying, the on-mount token
\* check in flight included, the provider renders its "Verifying..."
\* spinner and neither the form nor the children.
C22_SpinnerWhileVerifying ==
    /\ Session = "Unauthenticated" => Provider = "form"
    /\ Session = "Authenticated" => Provider = "children"
    /\ Session = "Verifying" => Provider = "spinner"

\* the on-mount check of a stored token is in flight: the spinner is shown
C22_Witness ==
    /\ mount.pc = "fetch" /\ Truthy(mount.token)
    /\ Session = "Verifying"
    /\ Provider = "spinner"

\* ------------------------------------------------------------------ C23
\* A call of authenticate or of logout is made in this step.
ContextCall ==
    \/ Logout
    \/ \E p \in Typed, from \in {"form", "context"} :
          AuthenticateLocalWith(p, from) \/ AuthenticateRemoteWith(p, from)
\* The session is Verifying after this step and was not before it.
EntersVerifying == ~isVerifying /\ isVerifying'

\* C23: every mount starts Verifying and, its request being answered or
\* failing, leaves Verifying for Unauthenticated or Authenticated; the
\* session is never taken back to Verifying by authenticate, by logout or by
\* anything else short of a new mount of the provider; and while it is
\* Verifying no step is a call of authenticate or of logout.
C23_VerifyingOnlyInitially ==
    /\ (Session = "Verifying") ~> (Session \in {"Unauthenticated", "Authenticated"})
    /\ [][EntersVerifying => Reload]_vars
    /\ [][isVerifying => ~ContextCall]_vars
    /\ [](mount.pc = "effect" => Session = "Verifying")

\* after a mount that verified a stored token, a logout and a new login:
\* the session is Authenticated on the same mount, not Verifying
C23_Witness ==
    /\ mount.pc = "done" /\ mount.how = "valid"
    /\ Session = "Authenticated"
    /\ Cardinality(generated) = 2
    /\ storage = TokenValue(2)

=============================================================================
